---------------------------- MODULE Spec2Model ----------------------------
(***************************************************************************)
(* Model of spyder_notebook/utils/servermanager.py: ServerManager keeps a  *)
(* list of ServerProcess entries, starts notebook servers on demand, polls *)
(* a descriptor file to learn that a server is up, and shuts servers down. *)
(*                                                                         *)
(* Strings are sequences of one-character strings, so that startswith,     *)
(* dirname and abspath are computed character by character.  Time is in    *)
(* milliseconds.  The process id of the i-th launched process is i.        *)
(***************************************************************************)
EXTENDS Integers, Sequences, FiniteSets, TLC

(***************************************************************************)
(* Program constants.                                                      *)
(***************************************************************************)
CHECK_SERVER_UP_DELAY == 250

SERVER_TIMEOUT_DELAY == 30

\* ServerState
STARTING == "STARTING"
RUNNING == "RUNNING"
FINISHED == "FINISHED"
ERROR == "ERROR"
TIMED_OUT == "TIMED_OUT"

ServerState == {STARTING, RUNNING, FINISHED, ERROR, TIMED_OUT}

\* Python's None
None == [type |-> "NoneType"]

(***************************************************************************)
(* Bounds of the model.                                                    *)
(***************************************************************************)
\* entries the manager may hold under Spec and FairSpec
MaxServers == 2

\* entries the manager may hold under TimingSpec (fine-grained clock)
MaxTimedServers == 1

(***************************************************************************)
(* Paths: posixpath as used by get_server and start_server.                *)
(***************************************************************************)
Slash == "/"

\* str.startswith
StartsWith(s, p) == Len(p) <= Len(s) /\ SubSeq(s, 1, Len(p)) = p

SlashPositions(s) == {i \in 1..Len(s) : s[i] = Slash}

FirstSlash(s) == CHOOSE i \in SlashPositions(s) : \A j \in SlashPositions(s) : i <= j

LastSlash(s) ==
  IF SlashPositions(s) = {} THEN 0
  ELSE CHOOSE i \in SlashPositions(s) : \A j \in SlashPositions(s) : j <= i

AllSlashes(s) == \A i \in 1..Len(s) : s[i] = Slash

RECURSIVE RStripSlash(_)
RStripSlash(s) ==
  IF s # <<>> /\ s[Len(s)] = Slash THEN RStripSlash(SubSeq(s, 1, Len(s) - 1)) ELSE s

\* os.path.dirname
dirname(p) ==
  LET head == SubSeq(p, 1, LastSlash(p))
  IN  IF head # <<>> /\ ~AllSlashes(head) THEN RStripSlash(head) ELSE head

\* str.split('/')
RECURSIVE SplitSlash(_)
SplitSlash(s) ==
  IF SlashPositions(s) = {} THEN <<s>>
  ELSE LET i == FirstSlash(s)
       IN  <<SubSeq(s, 1, i - 1)>> \o SplitSlash(SubSeq(s, i + 1, Len(s)))

\* '/'.join
RECURSIVE JoinSlash(_)
JoinSlash(comps) ==
  IF comps = <<>> THEN <<>>
  ELSE IF Len(comps) = 1 THEN comps[1]
  ELSE comps[1] \o <<Slash>> \o JoinSlash(Tail(comps))

DotDot == <<".", ".">>

\* the component loop of os.path.normpath
RECURSIVE NormComps(_, _, _)
NormComps(comps, acc, rooted) ==
  IF comps = <<>> THEN acc
  ELSE LET c == Head(comps)
           rest == Tail(comps)
       IN  IF c = <<>> \/ c = <<".">> THEN NormComps(rest, acc, rooted)
           ELSE IF c # DotDot \/ (~rooted /\ acc = <<>>)
                   \/ (acc # <<>> /\ acc[Len(acc)] = DotDot)
                THEN NormComps(rest, Append(acc, c), rooted)
           ELSE IF acc # <<>> THEN NormComps(rest, SubSeq(acc, 1, Len(acc) - 1), rooted)
           ELSE NormComps(rest, acc, rooted)

\* os.path.normpath
normpath(path) ==
  IF path = <<>> THEN <<".">>
  ELSE LET rooted == path[1] = Slash
           two == StartsWith(path, <<Slash, Slash>>)
                  /\ ~StartsWith(path, <<Slash, Slash, Slash>>)
           body == JoinSlash(NormComps(SplitSlash(path), <<>>, rooted))
           res == IF rooted THEN (IF two THEN <<Slash, Slash>> ELSE <<Slash>>) \o body
                  ELSE body
       IN  IF res = <<>> THEN <<".">> ELSE res

\* os.getcwd() of the process
Cwd == <<"/", "h">>

\* os.path.abspath
abspath(path) ==
  IF path # <<>> /\ path[1] = Slash THEN normpath(path)
  ELSE normpath(IF Cwd[Len(Cwd)] = Slash THEN Cwd \o path ELSE Cwd \o <<Slash>> \o path)

\* spyder.config.base.get_home_dir()
get_home_dir == <<"/", "h", "/", "u">>

(***************************************************************************)
(* File names given to the public operations.                              *)
(***************************************************************************)
\* absolute, normalized names, the form get_server hands to start_server:
\* /h/u/n lies under the home directory, /h/n in its parent directory, and
\* /h/ux is a file of the parent directory whose name begins like the home
\* directory's
AbsFilenames ==
  { <<"/", "h", "/", "u", "/", "n">>,
    <<"/", "h", "/", "n">>,
    <<"/", "h", "/", "u", "x">> }

\* names as a caller of get_server may spell them: also u/./n (relative to
\* the working directory) and /h//u/../n
Filenames ==
  AbsFilenames \cup { <<"u", "/", ".", "/", "n">>,
                      <<"/", "h", "/", "/", "u", "/", ".", ".", "/", "n">> }

(***************************************************************************)
(* State.                                                                  *)
(***************************************************************************)
VARIABLES
  servers,          \* ServerManager.servers: list of ServerProcess
  timers,           \* pending QTimer.singleShot callbacks: [server, due]
  now,              \* datetime.datetime.now(), in ms
  descriptor,       \* descriptor[pid]: the file nbserver-<pid>.json
  launched,         \* --notebook-dir of every process.start, in order
  signals,          \* signals[i]: emissions made by the checks of entry i
  shutdown_calls,   \* shutdown_calls[i]: arguments of shutdown_server for entry i
  timed_out_after,  \* timed_out_after[i]: the delay at which entry i was timed out
  emitted,          \* the last handler run: its emissions, each with the servers
                    \* list the connected slots see
  result            \* the last handler run: which, and the value returned or raised

vars ==
  <<servers, timers, now, descriptor, launched, signals, shutdown_calls, timed_out_after,
    emitted, result>>

\* the timeout budget of _check_server_started, in ms
TimeoutMs == SERVER_TIMEOUT_DELAY * 1000

\* a call that returned v, a call that raised e
Returned(v) == [raised |-> FALSE, value |-> v]

Raised(e) == [raised |-> TRUE, value |-> [type |-> e]]

\* the outcome o, as the outcome of handler op
Outcome(op, o) == [op |-> op, raised |-> o.raised, value |-> o.value]

\* the dict a complete descriptor file of process pid parses to
ServerInfo(pid) == [url |-> pid, token |-> pid]

\* ServerProcess.__init__ with the defaults start_server relies on
ServerProcess_BadDefault(process, notebook_dir, t) ==
  [process |-> process, notebook_dir |-> notebook_dir, starttime |-> t,
   state |-> RUNNING, server_info |-> None]

ServerProcess(process, notebook_dir, t) ==
  [process |-> process, notebook_dir |-> notebook_dir, starttime |-> t,
   state |-> STARTING, server_info |-> None]

\* the manager, its collaborators and the last outcome, as one value
Mgr ==
  [servers |-> servers, timers |-> timers, descriptor |-> descriptor,
   launched |-> launched, signals |-> signals, shutdown_calls |-> shutdown_calls,
   timed_out_after |-> timed_out_after, emitted |-> <<>>, result |-> Returned(None)]

Commit(op, m) ==
  /\ result' = Outcome(op, m.result)
  /\ servers' = m.servers
  /\ timers' = m.timers
  /\ descriptor' = m.descriptor
  /\ launched' = m.launched
  /\ signals' = m.signals
  /\ shutdown_calls' = m.shutdown_calls
  /\ timed_out_after' = m.timed_out_after
  /\ emitted' = m.emitted

(***************************************************************************)
(* _check_server_started                                                   *)
(***************************************************************************)
\* open() and json.load() of nbserver-<pid>.json
ReadDescriptor(m, pid) ==
  CASE m.descriptor[pid] = "absent" -> Raised("OSError")
    [] m.descriptor[pid] = "partial" -> Raised("JSONDecodeError")
    [] OTHER -> Returned(ServerInfo(pid))

\* self.sig_server_started.emit() / self.sig_server_timed_out.emit() by the
\* check of entry i: the connected slots run now, on the manager as it is
Emit(m, i, signal) ==
  [m EXCEPT !.signals[i][signal] = @ + 1,
            !.emitted = Append(@, [signal |-> signal, server |-> i, servers |-> m.servers])]

\* delay > datetime.timedelta(seconds=SERVER_TIMEOUT_DELAY)
TimedOut_Millis(delay) == delay > SERVER_TIMEOUT_DELAY

TimedOut(delay) == delay > TimeoutMs

NotReady_KeepPolling(m, i) ==
  LET again == [m EXCEPT !.timers = @ \cup {[server |-> i, due |-> now + CHECK_SERVER_UP_DELAY]},
                         !.result = Returned(None)]
  IN  IF TimedOut(now - m.servers[i].starttime)
      THEN Emit([again EXCEPT !.servers[i].state = TIMED_OUT,
                              !.timed_out_after[i] = now - m.servers[i].starttime],
                i, "timed_out")
      ELSE again

NotReady_Silent(m, i) ==
  IF TimedOut(now - m.servers[i].starttime)
  THEN [m EXCEPT !.servers[i].state = TIMED_OUT,
                 !.timed_out_after[i] = now - m.servers[i].starttime,
                 !.result = Returned(None)]
  ELSE [m EXCEPT !.timers = @ \cup {[server |-> i, due |-> now + CHECK_SERVER_UP_DELAY]},
                 !.result = Returned(None)]

\* the except OSError branch
NotReady(m, i) ==
  IF TimedOut(now - m.servers[i].starttime)
  THEN Emit([m EXCEPT !.servers[i].state = TIMED_OUT,
                      !.timed_out_after[i] = now - m.servers[i].starttime,
                      !.result = Returned(None)],
            i, "timed_out")
  ELSE [m EXCEPT !.timers = @ \cup {[server |-> i, due |-> now + CHECK_SERVER_UP_DELAY]},
                 !.result = Returned(None)]

\* the statements after the try block
Ready_NoInfo(m, i, server_info) ==
  Emit([m EXCEPT !.servers[i].state = RUNNING,
                 !.result = Returned(None)],
       i, "started")

Ready_NoState(m, i, server_info) ==
  Emit([m EXCEPT !.servers[i].server_info = server_info,
                 !.result = Returned(None)],
       i, "started")

Ready_EmitFirst(m, i, server_info) ==
  [Emit(m, i, "started") EXCEPT !.servers[i].state = RUNNING,
                                !.servers[i].server_info = server_info,
                                !.result = Returned(None)]

Ready(m, i, server_info) ==
  Emit([m EXCEPT !.servers[i].state = RUNNING,
                 !.servers[i].server_info = server_info,
                 !.result = Returned(None)],
       i, "started")

check_server_started(m, i) ==
  LET r == ReadDescriptor(m, m.servers[i].process)
  IN  IF r.raised
      THEN IF r.value.type = "OSError" THEN NotReady(m, i)
           ELSE [m EXCEPT !.result = r]      \* not caught: leaves the handler
      ELSE Ready(m, i, r.value)

(***************************************************************************)
(* start_server                                                            *)
(***************************************************************************)
NbDir(filename) ==
  IF StartsWith(filename, get_home_dir) THEN get_home_dir ELSE dirname(filename)

start_server_m(m, filename) ==
  LET nbdir == NbDir(filename)
      pid == Len(m.servers) + 1
      started ==
        [m EXCEPT !.launched = Append(@, nbdir),
                  !.descriptor = Append(@, "absent"),
                  !.servers = Append(@, ServerProcess(pid, nbdir, now)),
                  !.signals = Append(@, [started |-> 0, timed_out |-> 0]),
                  !.shutdown_calls = Append(@, <<>>),
                  !.timed_out_after = Append(@, -1)]
  IN  check_server_started(started, pid)

(***************************************************************************)
(* get_server                                                              *)
(***************************************************************************)
Matches_Reversed(filename, server) == StartsWith(server.notebook_dir, filename)

Matches(filename, server) == StartsWith(filename, server.notebook_dir)

Returns_RunningOnly(server) == server.state = RUNNING

Returns_AnyState(server) == server.state \in ServerState

\* the states in which a matching entry makes the loop of get_server return
Returns(server) == server.state = RUNNING \/ server.state = STARTING

\* the entries at which the loop of get_server returns
Deciding(m, filename) ==
  {i \in 1..Len(m.servers) : Matches(filename, m.servers[i]) /\ Returns(m.servers[i])}

First(S) == CHOOSE i \in S : \A j \in S : i <= j

StartIfAsked_Always(m, filename, start) ==
  LET r == start_server_m(m, filename)
  IN  IF r.result.raised THEN r ELSE [r EXCEPT !.result = Returned(None)]

\* if start: self.start_server(filename); return None
StartIfAsked(m, filename, start) ==
  IF start
  THEN LET r == start_server_m(m, filename)
       IN  IF r.result.raised THEN r ELSE [r EXCEPT !.result = Returned(None)]
  ELSE [m EXCEPT !.result = Returned(None)]

get_server_m(m, filename, start) ==
  LET fn == abspath(filename)
      hits == Deciding(m, fn)
  IN  IF hits # {}
      THEN LET s == m.servers[First(hits)]
           IN  [m EXCEPT !.result =
                  Returned(IF s.state = RUNNING THEN s.server_info ELSE None)]
      ELSE StartIfAsked(m, fn, start)

(***************************************************************************)
(* shutdown_all_servers                                                    *)
(***************************************************************************)
ShutdownOne_KeepState(m, i) ==
  IF m.servers[i].state = RUNNING
  THEN [m EXCEPT !.shutdown_calls[i] = Append(@, m.servers[i].server_info)]
  ELSE m

ShutdownOne_Restamp(m, i) ==
  IF m.servers[i].state = RUNNING
  THEN [m EXCEPT !.shutdown_calls[i] = Append(@, m.servers[i].server_info),
                 !.servers[i].state = FINISHED,
                 !.servers[i].starttime = now]
  ELSE m

ShutdownOne_Starting(m, i) ==
  IF m.servers[i].state = RUNNING
  THEN [m EXCEPT !.shutdown_calls[i] = Append(@, m.servers[i].server_info),
                 !.servers[i].state = FINISHED]
  ELSE IF m.servers[i].state = STARTING
       THEN [m EXCEPT !.servers[i].state = FINISHED]
       ELSE m

\* the body of the loop, for entry i
ShutdownOne(m, i) ==
  IF m.servers[i].state = RUNNING
  THEN [m EXCEPT !.shutdown_calls[i] = Append(@, m.servers[i].server_info),
                 !.servers[i].state = FINISHED]
  ELSE m

RECURSIVE ShutdownFrom(_, _)
ShutdownFrom(m, i) ==
  IF i > Len(m.servers) THEN m ELSE ShutdownFrom(ShutdownOne(m, i), i + 1)

shutdown_all_servers_m(m) == [ShutdownFrom(m, 1) EXCEPT !.result = Returned(None)]

(***************************************************************************)
(* Actions.                                                                *)
(***************************************************************************)
Init ==
  /\ servers = <<>>
  /\ timers = {}
  /\ now = 0
  /\ descriptor = <<>>
  /\ launched = <<>>
  /\ signals = <<>>
  /\ shutdown_calls = <<>>
  /\ timed_out_after = <<>>
  /\ emitted = <<>>
  /\ result = Outcome("init", Returned(None))

\* a call of get_server
get_server(filename, start) ==
  /\ Commit("get_server", get_server_m(Mgr, filename, start))
  /\ UNCHANGED now

\* a direct call of start_server
start_server(filename) ==
  /\ Commit("start_server", start_server_m(Mgr, filename))
  /\ UNCHANGED now

\* the event loop delivers a due single-shot timer
Tick(t) ==
  /\ t \in timers
  /\ now >= t.due
  /\ Commit("check_server_started",
            check_server_started([Mgr EXCEPT !.timers = @ \ {t}], t.server))
  /\ UNCHANGED now

\* a call of shutdown_all_servers
shutdown_all_servers ==
  /\ Commit("shutdown_all_servers", shutdown_all_servers_m(Mgr))
  /\ UNCHANGED now

\* the server process of entry i begins to write its descriptor file
WritePartial(i) ==
  /\ i \in 1..Len(servers)
  /\ servers[i].state = STARTING
  /\ descriptor[servers[i].process] = "absent"
  /\ descriptor' = [descriptor EXCEPT ![servers[i].process] = "partial"]
  /\ UNCHANGED <<servers, timers, now, launched, signals, shutdown_calls, timed_out_after,
                 emitted, result>>

\* the server process of entry i has written its descriptor file
WriteComplete(i) ==
  /\ i \in 1..Len(servers)
  /\ servers[i].state = STARTING
  /\ descriptor[servers[i].process] # "complete"
  /\ descriptor' = [descriptor EXCEPT ![servers[i].process] = "complete"]
  /\ UNCHANGED <<servers, timers, now, launched, signals, shutdown_calls, timed_out_after,
                 emitted, result>>

\* whether the call would launch a process
WouldLaunch(filename, start) == start /\ Deciding(Mgr, abspath(filename)) = {}

(***************************************************************************)
(* Spec: the instants at which anything happens are drawn from Instants.   *)
(***************************************************************************)
Instants ==
  { 0, TimeoutMs + CHECK_SERVER_UP_DELAY, 2 * (TimeoutMs + CHECK_SERVER_UP_DELAY) }

\* a later instant exists at which an entry created now has timed out
CanStillTimeOut == \E t \in Instants : t - now > SERVER_TIMEOUT_DELAY * 1000

AdvanceTime(t) ==
  /\ t \in Instants
  /\ t > now
  /\ now' = t
  /\ UNCHANGED <<servers, timers, descriptor, launched, signals, shutdown_calls, timed_out_after,
                 emitted, result>>

Next ==
  \/ \E f \in Filenames, start \in BOOLEAN :
       /\ WouldLaunch(f, start) => Len(servers) < MaxServers /\ CanStillTimeOut
       /\ get_server(f, start)
  \/ \E f \in AbsFilenames :
       /\ Len(servers) < MaxServers /\ CanStillTimeOut
       /\ start_server(f)
  \/ \E t \in timers : Tick(t)
  \/ shutdown_all_servers
  \/ \E i \in 1..MaxServers : WritePartial(i)
  \/ \E i \in 1..MaxServers : WriteComplete(i)
  \/ \E t \in Instants : AdvanceTime(t)

Spec == Init /\ [][Next]_vars

\* The Qt event loop delivers every pending single-shot timer, and the clock
\* moves on.  Nothing obliges a server process to write its descriptor file.
Fairness ==
  /\ \A i \in 1..MaxServers : WF_vars(\E t \in timers : t.server = i /\ Tick(t))
  /\ WF_vars(\E t \in Instants : AdvanceTime(t))

FairSpec == Spec /\ Fairness

(***************************************************************************)
(* GetServerSpec: servers are requested through get_server only.           *)
(***************************************************************************)
NextGetServer ==
  \/ \E f \in Filenames, start \in BOOLEAN :
       /\ WouldLaunch(f, start) => Len(servers) < MaxServers /\ CanStillTimeOut
       /\ get_server(f, start)
  \/ \E t \in timers : Tick(t)
  \/ shutdown_all_servers
  \/ \E i \in 1..MaxServers : WritePartial(i)
  \/ \E i \in 1..MaxServers : WriteComplete(i)
  \/ \E t \in Instants : AdvanceTime(t)

GetServerSpec == Init /\ [][NextGetServer]_vars

(***************************************************************************)
(* TimingSpec: the clock advances in steps of CHECK_SERVER_UP_DELAY while  *)
(* a timer is pending, every timer is delivered at the instant it is due,  *)
(* and all requests arrive at time 0.                                      *)
(***************************************************************************)
ClockTick ==
  /\ timers # {}
  /\ \A t \in timers : now < t.due
  /\ now' = now + CHECK_SERVER_UP_DELAY
  /\ UNCHANGED <<servers, timers, descriptor, launched, signals, shutdown_calls,
                 timed_out_after, emitted, result>>

NextTiming ==
  \/ \E f \in AbsFilenames, start \in BOOLEAN :
       /\ WouldLaunch(f, start) => Len(servers) < MaxTimedServers /\ now = 0
       /\ get_server(f, start)
  \/ \E f \in AbsFilenames :
       /\ Len(servers) < MaxTimedServers /\ now = 0
       /\ start_server(f)
  \/ \E t \in timers : Tick(t)
  \/ shutdown_all_servers
  \/ \E i \in 1..MaxTimedServers : WritePartial(i)
  \/ \E i \in 1..MaxTimedServers : WriteComplete(i)
  \/ ClockTick

TimingSpec == Init /\ [][NextTiming]_vars


(***************************************************************************)
(* Vocabulary of the properties.                                           *)
(***************************************************************************)
Entries == 1..Len(servers)

\* the normalized form of every file name
Normalized == [f \in Filenames |-> abspath(f)]

\* the notebook_dir of entry i is a string prefix of the normalized name f
PrefixOf(f, i) == StartsWith(Normalized[f], servers[i].notebook_dir)

\* the manager after the call get_server(f, start) made in this state
AfterGetServer(f, start) == get_server_m(Mgr, f, start)

\* nothing launched and no entry appended or changed in m
NothingLaunchedIn(m) == m.launched = launched /\ m.servers = servers

\* this step is the timer callback t
Fired(t) == result'.op = "check_server_started" /\ Tick(t)

IsState(i, st) == i \in Entries /\ servers[i].state = st

\* entries that are STARTING or RUNNING and prefix-match f, and the first one
ActiveMatches(f) ==
  {i \in Entries : PrefixOf(f, i) /\ (IsState(i, STARTING) \/ IsState(i, RUNNING))}

FirstActiveMatch(f) == CHOOSE i \in ActiveMatches(f) : \A j \in ActiveMatches(f) : i <= j

GotFromGetServer(v) == result = Outcome("get_server", Returned(v))

TimeoutBudget == SERVER_TIMEOUT_DELAY * 1000

(***************************************************************************)
(* C1: whenever the notebook_dir of some RUNNING entry is a prefix of the  *)
(* normalized filename, get_server returns that entry's server_info,       *)
(* launches nothing and appends nothing; two consecutive calls for files   *)
(* of the same RUNNING directory return the same server_info.              *)
(* As claimed, this fails: an earlier STARTING or RUNNING entry that also  *)
(* matches decides the call.                                               *)
(***************************************************************************)
C1_AsClaimed ==
  \A f \in Filenames, start \in BOOLEAN : \A i \in Entries :
    (IsState(i, RUNNING) /\ PrefixOf(f, i))
      => LET m == AfterGetServer(f, start)
         IN  /\ m.result = Returned(servers[i].server_info)
             /\ NothingLaunchedIn(m)
             /\ \A g \in Filenames :
                  PrefixOf(g, i)
                    => get_server_m(m, g, start).result = Returned(servers[i].server_info)

\* C1 as amended: the first STARTING or RUNNING entry that prefix-matches
\* decides; when it is RUNNING its server_info is returned, and whenever
\* some RUNNING entry prefix-matches nothing is launched or appended.  Two
\* consecutive calls decided by the same RUNNING entry return the same.
C1_FirstMatchDecides ==
  \A f \in Filenames, start \in BOOLEAN :
    LET m == AfterGetServer(f, start)
    IN  /\ (\E i \in Entries : IsState(i, RUNNING) /\ PrefixOf(f, i))
             => NothingLaunchedIn(m)
        /\ (ActiveMatches(f) # {} /\ IsState(FirstActiveMatch(f), RUNNING))
             => LET info == servers[FirstActiveMatch(f)].server_info
                IN  /\ m.result = Returned(info)
                    /\ NothingLaunchedIn(m)
                    /\ \A g \in Filenames :
                         (ActiveMatches(g) # {}
                            /\ FirstActiveMatch(g) = FirstActiveMatch(f))
                           => get_server_m(m, g, start).result = Returned(info)

\* get_server has returned the server_info of the first of two RUNNING
\* entries whose directories both contain the file
C1_Witness ==
  \E i, j \in Entries :
    /\ i < j /\ IsState(i, RUNNING) /\ IsState(j, RUNNING)
    /\ StartsWith(servers[j].notebook_dir, servers[i].notebook_dir)
    /\ servers[j].notebook_dir # servers[i].notebook_dir
    /\ GotFromGetServer(servers[i].server_info)

(***************************************************************************)
(* C2: get_server(filename, start=True) for a filename that prefix-matches *)
(* no entry launches exactly one process, appends exactly one entry, which *)
(* is STARTING when get_server returns, and returns None.                  *)
(***************************************************************************)
C2_NoMatchStartsOne ==
  \A f \in Filenames :
    (\A i \in Entries : ~PrefixOf(f, i))
      => LET m == AfterGetServer(f, TRUE)
         IN  /\ Len(m.launched) = Len(launched) + 1
             /\ SubSeq(m.launched, 1, Len(launched)) = launched
             /\ Len(m.servers) = Len(servers) + 1
             /\ SubSeq(m.servers, 1, Len(servers)) = servers
             /\ m.servers[Len(m.servers)].state = STARTING
             /\ m.result = Returned(None)

\* get_server has just appended a second entry, for a directory the first
\* entry does not serve
C2_Witness ==
  /\ Len(servers) = 2 /\ Len(launched) = 2
  /\ ~StartsWith(servers[2].notebook_dir, servers[1].notebook_dir)
  /\ IsState(2, STARTING) /\ servers[2].starttime = now
  /\ GotFromGetServer(None)
  /\ \E t \in timers : t.server = 2 /\ t.due = now + CHECK_SERVER_UP_DELAY

(***************************************************************************)
(* C3: while an entry is STARTING, get_server(f, start=True) for a file    *)
(* that resolves to the entry's serving directory launches nothing,        *)
(* appends nothing and returns None.                                       *)
(* As claimed, the last part fails: a RUNNING entry further up the list    *)
(* whose notebook_dir is also a prefix of the file answers the call.       *)
(***************************************************************************)
C3_AsClaimed ==
  \A f \in Filenames : \A i \in Entries :
    (IsState(i, STARTING) /\ NbDir(Normalized[f]) = servers[i].notebook_dir)
      => LET m == AfterGetServer(f, TRUE)
         IN  NothingLaunchedIn(m) /\ m.result = Returned(None)

\* C3 as amended: nothing is launched or appended; the call returns None
\* unless the first STARTING or RUNNING entry that prefix-matches the file is
\* a RUNNING one, whose server_info it then returns.
C3_StartingNeverDuplicated ==
  \A f \in Filenames : \A i \in Entries :
    (IsState(i, STARTING) /\ NbDir(Normalized[f]) = servers[i].notebook_dir)
      => LET m == AfterGetServer(f, TRUE)
         IN  /\ NothingLaunchedIn(m)
             /\ i \in ActiveMatches(f)
             /\ LET first == servers[FirstActiveMatch(f)]
                IN  m.result =
                      Returned(IF first.state = RUNNING THEN first.server_info ELSE None)
             /\ (\A j \in 1..(i - 1) : ~(IsState(j, RUNNING) /\ PrefixOf(f, j)))
                  => m.result = Returned(None)

\* get_server has returned None for the one entry, which is STARTING, and
\* has launched nothing
C3_Witness ==
  /\ Len(servers) = 1 /\ Len(launched) = 1
  /\ IsState(1, STARTING) /\ servers[1].starttime < now
  /\ GotFromGetServer(None)

(***************************************************************************)
(* C4: a check of a STARTING entry that finds the complete descriptor file *)
(* within the timeout makes the entry RUNNING, sets server_info to the     *)
(* parsed content and emits sig_server_started; over the entry's lifetime  *)
(* exactly one sig_server_started is emitted for it.                       *)
(***************************************************************************)
C4_ReadyProbeStarts ==
  [][/\ \A t \in timers :
          LET i == t.server
          IN  (/\ IsState(i, STARTING)
               /\ descriptor[servers[i].process] = "complete"
               /\ now - servers[i].starttime <= TimeoutBudget
               /\ Fired(t))
                => /\ servers'[i].state = RUNNING
                   /\ servers'[i].server_info = ServerInfo(servers[i].process)
                   /\ servers'[i].server_info # None
                   /\ signals'[i].started = signals[i].started + 1
     /\ \A i \in 1..Len(servers') :
          signals'[i].started =
            IF servers'[i].state \in {RUNNING, FINISHED} THEN 1 ELSE 0
    ]_vars

\* a timer callback within the timeout has just made an entry RUNNING
C4_Witness ==
  \E i \in Entries :
    /\ IsState(i, RUNNING)
    /\ servers[i].server_info = ServerInfo(servers[i].process)
    /\ signals[i].started = 1
    /\ result.op = "check_server_started"
    /\ now > servers[i].starttime /\ now - servers[i].starttime <= TimeoutBudget

(***************************************************************************)
(* C5: with every scheduled timer delivered and the clock advancing, no    *)
(* entry stays STARTING forever, and an entry whose descriptor file never  *)
(* becomes readable ends TIMED_OUT with exactly one sig_server_timed_out.  *)
(* The code fails this when the file is there but does not parse.          *)
(***************************************************************************)
C5_AsClaimed ==
  \A i \in 1..MaxServers :
    /\ IsState(i, STARTING) ~> (i \in Entries /\ ~IsState(i, STARTING))
    /\ IsState(i, STARTING)
         ~> \/ IsState(i, TIMED_OUT) /\ signals[i].timed_out = 1
            \/ i \in Entries /\ descriptor[servers[i].process] = "complete"

(***************************************************************************)
(* C6: an entry is set TIMED_OUT only by a check at which at least 30 s    *)
(* have passed since starttime, and with the checks exactly 250 ms apart   *)
(* from starttime on, no later than 30 s + 250 ms after starttime.         *)
(***************************************************************************)
C6_TimeoutWindow ==
  \A i \in Entries :
    /\ IsState(i, TIMED_OUT) <=> timed_out_after[i] >= 0
    /\ IsState(i, TIMED_OUT)
         => /\ timed_out_after[i] >= 30 * 1000
            /\ timed_out_after[i] <= 30 * 1000 + 250

\* an entry has been timed out 30 s + 250 ms after its start
C6_Witness ==
  \E i \in Entries :
    /\ IsState(i, TIMED_OUT)
    /\ timed_out_after[i] = 30 * 1000 + 250
    /\ signals[i].timed_out = 1

(***************************************************************************)
(* C7: shutdown_all_servers makes every RUNNING entry FINISHED and calls   *)
(* shutdown_server once for it, with its server_info; every other entry    *)
(* stays as it is and gets no call.                                        *)
(***************************************************************************)
C7_ShutdownFrame ==
  [][(result'.op = "shutdown_all_servers" /\ shutdown_all_servers)
       => /\ Len(servers') = Len(servers)
          /\ \A i \in Entries :
               IF servers[i].state = RUNNING
               THEN /\ servers'[i] = [servers[i] EXCEPT !.state = FINISHED]
                    /\ shutdown_calls'[i] =
                         Append(shutdown_calls[i], servers[i].server_info)
               ELSE /\ servers'[i] = servers[i]
                    /\ shutdown_calls'[i] = shutdown_calls[i]
    ]_vars

\* shutdown_all_servers has just finished one entry and left a STARTING
\* one alone
C7_Witness ==
  /\ result.op = "shutdown_all_servers"
  /\ \E i, j \in Entries :
       /\ IsState(i, FINISHED)
       /\ shutdown_calls[i] = <<ServerInfo(servers[i].process)>>
       /\ IsState(j, STARTING) /\ shutdown_calls[j] = <<>>

(***************************************************************************)
(* C8: every entry whose state is not RUNNING has server_info None.        *)
(* As claimed, this fails for FINISHED entries: shutdown_all_servers       *)
(* leaves their server_info in place.                                      *)
(***************************************************************************)
C8_AsClaimed ==
  \A i \in Entries : servers[i].state # RUNNING => servers[i].server_info = None

\* C8 as amended: every entry that is neither RUNNING nor FINISHED has
\* server_info None; a FINISHED entry keeps the server_info it had while
\* RUNNING.
C8_InfoOnlyOnceRunning ==
  \A i \in Entries :
    /\ servers[i].state \notin {RUNNING, FINISHED} => servers[i].server_info = None
    /\ servers[i].state = FINISHED
         => servers[i].server_info = ServerInfo(servers[i].process)

\* a TIMED_OUT entry without server_info beside a FINISHED one that keeps it
C8_Witness ==
  \E i, j \in Entries :
    /\ IsState(i, TIMED_OUT) /\ servers[i].server_info = None
    /\ IsState(j, FINISHED) /\ servers[j].server_info = ServerInfo(servers[j].process)

(***************************************************************************)
(* C9: a check that finds a descriptor file that does not parse acts as if *)
(* the file were absent: no exception leaves the check, and the entry is   *)
(* either timed out or polled again.                                       *)
(* The code catches OSError only: the parse error leaves the handler and   *)
(* no further check is scheduled.                                          *)
(***************************************************************************)
C9_AsClaimed ==
  [][\A t \in timers :
       LET i == t.server
       IN  (descriptor[servers[i].process] = "partial" /\ Fired(t))
             => /\ ~result'.raised
                /\ \/ servers'[i].state = TIMED_OUT
                   \/ \E u \in timers' : u.server = i
    ]_vars

(***************************************************************************)
(* C10: get_server(filename, start=False) for a filename that matches no   *)
(* entry returns None and changes nothing.                                 *)
(***************************************************************************)
C10_NoStartNoEffect ==
  \A f \in Filenames :
    (\A i \in Entries : ~PrefixOf(f, i))
      => AfterGetServer(f, FALSE) = [Mgr EXCEPT !.result = Returned(None)]

\* get_server(start=False) has returned None although an entry exists, for
\* a file outside that entry's directory
C10_Witness ==
  /\ Len(servers) = 1 /\ Len(launched) = 1
  /\ servers[1].notebook_dir = get_home_dir
  /\ IsState(1, RUNNING)
  /\ GotFromGetServer(None)

(***************************************************************************)
(* C11: the list of entries only grows at its end: no step removes or      *)
(* reorders an entry, so the list before a step is a prefix of the list    *)
(* after it, entry by entry the same process; and no step changes the      *)
(* notebook_dir or the starttime of an entry.                              *)
(***************************************************************************)
C11_AppendOnly ==
  [][/\ Len(servers') >= Len(servers)
     /\ Len(launched') >= Len(launched)
     /\ \A i \in Entries :
          /\ servers'[i].process = servers[i].process
          /\ servers'[i].notebook_dir = servers[i].notebook_dir
          /\ servers'[i].starttime = servers[i].starttime
    ]_vars

\* a later entry has been appended behind one that shutdown_all_servers
\* finished, which is still first and still has its directory and start time
C11_Witness ==
  /\ Len(servers) = 2
  /\ IsState(1, FINISHED) /\ shutdown_calls[1] # <<>>
  /\ servers[1].process = 1 /\ servers[2].process = 2
  /\ servers[1].notebook_dir = launched[1] /\ servers[1].starttime = 0
  /\ servers[2].notebook_dir = launched[2] /\ servers[2].starttime > 0

(***************************************************************************)
(* C12: every check that is scheduled, and every check that runs from a    *)
(* timer, is for an entry that is STARTING: once an entry is RUNNING,      *)
(* TIMED_OUT or FINISHED no timer is pending for it and none is added.     *)
(***************************************************************************)
C12_PollingStops ==
  [][/\ \A t \in timers' : servers'[t.server].state = STARTING
     /\ \A t \in timers : Fired(t) => servers[t.server].state = STARTING
    ]_vars

\* a timer callback has just made an entry RUNNING and left no timer for it,
\* while the timer of a STARTING entry is still pending
C12_Witness ==
  /\ result.op = "check_server_started"
  /\ \E i, j \in Entries :
       /\ IsState(i, RUNNING) /\ signals[i].started = 1
       /\ IsState(j, STARTING)
       /\ \A t \in timers : t.server = j
       /\ timers # {}

\* the manager as a slot connected to the emission e finds it
SeenBy(e) == [Mgr EXCEPT !.servers = e.servers]

\* among the entries srv, those STARTING or RUNNING that prefix-match f
ActiveIn(srv, f) ==
  {i \in 1..Len(srv) : /\ StartsWith(Normalized[f], srv[i].notebook_dir)
                       /\ srv[i].state \in {STARTING, RUNNING}}

(***************************************************************************)
(* C13: when sig_server_started is emitted the entry is already RUNNING    *)
(* with its server_info set, and a get_server call made by a connected     *)
(* slot returns that server_info; when sig_server_timed_out is emitted the *)
(* entry is already TIMED_OUT; the emission is the last thing the check    *)
(* does, so no other check runs in between.                                *)
(* As claimed, this fails: the slot's get_server call is answered by the   *)
(* first STARTING or RUNNING entry that matches, which may be another one  *)
(* for every file name there is.                                           *)
(***************************************************************************)
C13_AsClaimed ==
  \A k \in 1..Len(emitted) :
    LET e == emitted[k]
        s == e.servers[e.server]
    IN  /\ e.signal = "started"
             => /\ s.state = RUNNING /\ s.server_info # None
                /\ \E f \in Filenames :
                     get_server_m(SeenBy(e), f, TRUE).result = Returned(s.server_info)
        /\ e.signal = "timed_out" => s.state = TIMED_OUT

\* C13 as amended: at the emission of sig_server_started the entry is
\* RUNNING with server_info set, and get_server called by a slot returns
\* that server_info, launching nothing, for every file name whose first
\* STARTING or RUNNING prefix-matching entry is this one; at the emission of
\* sig_server_timed_out the entry is TIMED_OUT; a check emits at most once,
\* as its last statement.
C13_EmittedAfterCommit ==
  /\ Len(emitted) <= 1
  /\ emitted # <<>> => result.op = "check_server_started"
  /\ \A k \in 1..Len(emitted) :
       LET e == emitted[k]
           s == e.servers[e.server]
       IN  /\ e.servers = servers
           /\ e.signal \in {"started", "timed_out"}
           /\ e.signal = "started"
                => /\ s.state = RUNNING
                   /\ s.server_info = ServerInfo(s.process)
                   /\ s.server_info # None
                   /\ \A f \in Filenames, start \in BOOLEAN :
                        (/\ e.server \in ActiveIn(e.servers, f)
                         /\ \A j \in ActiveIn(e.servers, f) : e.server <= j)
                          => get_server_m(SeenBy(e), f, start)
                               = [SeenBy(e) EXCEPT !.result = Returned(s.server_info)]
           /\ e.signal = "timed_out" => s.state = TIMED_OUT

\* sig_server_started has just been emitted for the second of two entries of
\* one directory while the first is still STARTING
C13_Witness ==
  /\ Len(emitted) = 1
  /\ emitted[1].signal = "started" /\ emitted[1].server = 2
  /\ IsState(2, RUNNING)
  /\ IsState(1, STARTING)
  /\ servers[1].notebook_dir = servers[2].notebook_dir

(***************************************************************************)
(* C14: the state of an entry changes only from STARTING to RUNNING or to  *)
(* TIMED_OUT, in a check run from a timer, and from RUNNING to FINISHED,   *)
(* in shutdown_all_servers; TIMED_OUT and FINISHED entries never change    *)
(* state, a new entry is STARTING, and no entry is ever in state ERROR.    *)
(***************************************************************************)
C14_Transitions ==
  [][/\ \A i \in Entries :
          servers'[i].state # servers[i].state
            => \/ /\ servers[i].state = STARTING
                  /\ servers'[i].state \in {RUNNING, TIMED_OUT}
                  /\ result'.op = "check_server_started"
                  /\ \E t \in timers : t.server = i /\ t \notin timers'
               \/ /\ servers[i].state = RUNNING
                  /\ servers'[i].state = FINISHED
                  /\ result'.op = "shutdown_all_servers"
     /\ \A i \in (1..Len(servers')) \ Entries :
          /\ servers'[i].state = STARTING
          /\ result'.op \in {"get_server", "start_server"}
     /\ \A i \in 1..Len(servers') : servers'[i].state # ERROR
    ]_vars

\* one entry has gone from STARTING over RUNNING to FINISHED, another from
\* STARTING to TIMED_OUT
C14_Witness ==
  \E i, j \in Entries :
    /\ IsState(i, FINISHED) /\ signals[i].started = 1 /\ shutdown_calls[i] # <<>>
    /\ IsState(j, TIMED_OUT) /\ signals[j].timed_out = 1

\* the entries whose notebook_dir is a prefix of the normalized name f
AllMatches(f) == {i \in Entries : PrefixOf(f, i)}

(***************************************************************************)
(* C15: get_server is decided by the first entry, in list order, whose     *)
(* notebook_dir is a string prefix of the normalized filename: if there is *)
(* one, the call returns what that entry gives (its server_info if it is   *)
(* RUNNING, else None) whatever the later entries are, and launches        *)
(* nothing; a server is started only when no entry at all matches.         *)
(* As claimed, this fails: a matching entry that is TIMED_OUT or FINISHED  *)
(* is passed over, and later entries or a new launch decide.               *)
(***************************************************************************)
C15_AsClaimed ==
  \A f \in Filenames, start \in BOOLEAN :
    LET m == AfterGetServer(f, start)
    IN  /\ AllMatches(f) # {}
             => LET first == servers[First(AllMatches(f))]
                IN  /\ NothingLaunchedIn(m)
                    /\ m.result =
                         Returned(IF first.state = RUNNING THEN first.server_info ELSE None)
        /\ m.launched # launched => AllMatches(f) = {}

\* C15 as amended: the first entry that prefix-matches and is STARTING or
\* RUNNING decides, whatever the later entries are; matching entries in any
\* other state are passed over; a server is started exactly when start is
\* set and no STARTING or RUNNING entry prefix-matches, and then exactly one.
C15_FirstActiveMatchWins ==
  \A f \in Filenames, start \in BOOLEAN :
    LET m == AfterGetServer(f, start)
        A == ActiveMatches(f)
    IN  /\ A # {}
             => LET k == First(A)
                IN  /\ m = [Mgr EXCEPT !.result =
                              Returned(IF servers[k].state = RUNNING
                                       THEN servers[k].server_info ELSE None)]
                    /\ \A later \in [(k + 1)..Len(servers) -> ServerState] :
                         LET other == [i \in Entries |->
                                         IF i <= k THEN servers[i]
                                         ELSE [servers[i] EXCEPT !.state = later[i]]]
                         IN  get_server_m([Mgr EXCEPT !.servers = other], f, start).result
                               = m.result
        /\ (m.launched # launched) <=> (start /\ A = {})
        /\ (start /\ A = {})
             => /\ m.launched = Append(launched, NbDir(Normalized[f]))
                /\ Len(m.servers) = Len(servers) + 1
                /\ m.result = Returned(None)

\* get_server has launched a second server for a directory whose first
\* entry, timed out, still prefix-matches the file
C15_Witness ==
  /\ result.op = "get_server"
  /\ Len(servers) = 2
  /\ IsState(1, TIMED_OUT)
  /\ IsState(2, STARTING) /\ servers[2].starttime = now
  /\ servers[1].notebook_dir = servers[2].notebook_dir
  /\ launched = <<servers[1].notebook_dir, servers[2].notebook_dir>>

\* the file name f lies under the directory dir
LiesUnder(f, dir) == f = dir \/ StartsWith(f, dir \o <<Slash>>)

(***************************************************************************)
(* C16: start_server(filename) gives the new entry the home directory as   *)
(* notebook_dir when the file lies under the home directory, and the       *)
(* parent directory of the file otherwise; either way the notebook_dir is  *)
(* a string prefix of the filename, and a get_server for the same filename *)
(* that follows is answered by an entry, the new one unless an earlier one *)
(* matches: it launches nothing.                                           *)
(* The code tests filename.startswith(home_dir): a file beside the home    *)
(* directory whose name begins with the home directory's gets the home     *)
(* directory, not its parent.                                              *)
(***************************************************************************)
C16_AsClaimed ==
  \A f \in AbsFilenames :
    LET m == start_server_m(Mgr, f)
        new == m.servers[Len(m.servers)]
        again == get_server_m(m, f, TRUE)
    IN  /\ Len(m.servers) = Len(servers) + 1
        /\ new.notebook_dir = IF LiesUnder(f, get_home_dir) THEN get_home_dir ELSE dirname(f)
        /\ StartsWith(f, new.notebook_dir)
        /\ again.launched = m.launched

\* the checks pending for entry i
PendingFor(i) == {t \in timers : t.server = i}

(***************************************************************************)
(* C17: between handler runs, exactly one check is pending for every entry *)
(* that is STARTING and none for an entry in any other state; no entry has *)
(* two pending checks.                                                     *)
(* The code loses the pending check of a STARTING entry when json.load     *)
(* raises on a descriptor file that is there but does not parse.           *)
(***************************************************************************)
C17_AsClaimed ==
  \A i \in Entries :
    Cardinality(PendingFor(i)) = IF IsState(i, STARTING) THEN 1 ELSE 0

(***************************************************************************)
(* C18: when servers are started through get_server only, no two entries   *)
(* that are STARTING or RUNNING at the same time have the same             *)
(* notebook_dir.                                                           *)
(***************************************************************************)
C18_NoActiveDuplicates ==
  \A i, j \in Entries :
    (/\ i # j
     /\ servers[i].state \in {STARTING, RUNNING}
     /\ servers[j].state \in {STARTING, RUNNING})
      => servers[i].notebook_dir # servers[j].notebook_dir

\* get_server has launched a second server for a directory, the first one
\* being finished, and a further get_server has launched nothing
C18_Witness ==
  /\ Len(servers) = 2
  /\ servers[1].notebook_dir = servers[2].notebook_dir
  /\ IsState(1, FINISHED)
  /\ IsState(2, STARTING)
  /\ GotFromGetServer(None)
  /\ now > servers[2].starttime

\* how many entries are in one of the states S
CountIn(S) == Cardinality({i \in Entries : servers[i].state \in S})

RECURSIVE SumTo(_, _)
\* how many emissions of signal the checks of the entries 1..n made
SumTo(n, signal) == IF n = 0 THEN 0 ELSE signals[n][signal] + SumTo(n - 1, signal)

(***************************************************************************)
(* C19: the number of sig_server_started emissions equals the number of    *)
(* entries RUNNING or FINISHED, the number of sig_server_timed_out         *)
(* emissions equals the number of entries TIMED_OUT, and the number of     *)
(* process launches equals the number of entries; an entry causes at most  *)
(* one emission in all, never one of each.                                 *)
(***************************************************************************)
C19_Counts ==
  /\ SumTo(Len(servers), "started") = CountIn({RUNNING, FINISHED})
  /\ SumTo(Len(servers), "timed_out") = CountIn({TIMED_OUT})
  /\ Len(launched) = Len(servers)
  /\ \A i \in Entries : signals[i].started + signals[i].timed_out <= 1

\* two launches so far: one server started and was shut down, the other
\* timed out
C19_Witness ==
  /\ Len(launched) = 2
  /\ CountIn({FINISHED}) = 1
  /\ CountIn({TIMED_OUT}) = 1
  /\ SumTo(Len(servers), "started") = 1
  /\ SumTo(Len(servers), "timed_out") = 1

(***************************************************************************)
(* C20: however often shutdown_all_servers is called, shutdown_server is   *)
(* called at most once per entry, only for an entry that was RUNNING, with *)
(* its server_info, and when shutdown_all_servers has returned no entry is *)
(* RUNNING.                                                                *)
(***************************************************************************)
C20_ShutdownOnce ==
  /\ \A i \in Entries :
       /\ Len(shutdown_calls[i]) <= 1
       /\ shutdown_calls[i] # <<>>
            => /\ signals[i].started = 1
               /\ IsState(i, FINISHED)
               /\ shutdown_calls[i] = <<ServerInfo(servers[i].process)>>
  /\ result.op = "shutdown_all_servers" => \A i \in Entries : ~IsState(i, RUNNING)

\* shutdown_all_servers has returned: one entry is FINISHED after exactly one
\* shutdown_server call, and an entry that was never RUNNING got none
C20_Witness ==
  /\ result.op = "shutdown_all_servers"
  /\ emitted = <<>>
  /\ \E i, j \in Entries :
       /\ IsState(i, FINISHED) /\ Len(shutdown_calls[i]) = 1
       /\ IsState(j, TIMED_OUT) /\ shutdown_calls[j] = <<>>

=============================================================================
